---- MODULE Spec2Model ----
(***************************************************************************)
(* Map Assistant: the one-step tool-dispatch loop of agent_app.py and the  *)
(* OSRM tool implementations of map_servers/osrm_server.py.                *)
(*                                                                         *)
(* Text is a sequence of tokens, Python values are tagged records:         *)
(*   [t |-> "str", s]  [t |-> "num", n]  [t |-> "bool", b]  [t |-> "none"] *)
(*   [t |-> "nan"]  [t |-> "dict", m]  [t |-> "list", a]                   *)
(*   [t |-> "text", toks]   a str holding unparsed model text              *)
(* Floats are modelled by integers.                                        *)
(***************************************************************************)
EXTENDS Integers, Sequences, FiniteSets, TLC

\* ------------------------------------------------------------------ bounds

MaxTurns == 2

\* ------------------------------------------------------------------ tokens

WS == [k |-> "ws", v |-> " "]
NL == [k |-> "ws", v |-> "\n"]
P(c) == [k |-> "punct", v |-> c]
S(x) == [k |-> "str", v |-> x]
N(x) == [k |-> "num", n |-> x]
L(x) == [k |-> "lit", v |-> x]
W(x) == [k |-> "word", v |-> x]

IsWs(tk) == tk.k = "ws"

\* ----------------------------------------------------------- python values

PyStr(x) == [t |-> "str", s |-> x]
PyNum(x) == [t |-> "num", n |-> x]
PyBool(x) == [t |-> "bool", b |-> x]
PyNone == [t |-> "none"]
PyNaN == [t |-> "nan"]
PyDict(f) == [t |-> "dict", m |-> f]
PyList(q) == [t |-> "list", a |-> q]
PyText(toks) == [t |-> "text", toks |-> toks]

EmptyMap == [x \in {} |-> PyNone]

\* m with key k bound to v (a later binding of the same key wins)
Put(m, k, v) == [x \in (DOMAIN m) \cup {k} |-> IF x = k THEN v ELSE m[x]]

\* Python truthiness, as used by `decision.get("args", {}) or {}`
Truthy(v) ==
  CASE v.t = "none" -> FALSE
    [] v.t = "bool" -> v.b
    [] v.t = "num" -> v.n # 0
    [] v.t = "str" -> v.s # ""
    [] v.t = "text" -> v.toks # <<>>
    [] v.t = "dict" -> DOMAIN v.m # {}
    [] v.t = "list" -> v.a # <<>>
    [] OTHER -> TRUE

\* ------------------------------------------------------------- str.strip()

RECURSIVE LStrip(_)
LStrip(toks) ==
  IF toks # <<>> /\ IsWs(Head(toks)) THEN LStrip(Tail(toks)) ELSE toks

RECURSIVE RStrip(_)
RStrip(toks) ==
  IF toks # <<>> /\ IsWs(toks[Len(toks)])
  THEN RStrip(SubSeq(toks, 1, Len(toks) - 1))
  ELSE toks

Strip(toks) == RStrip(LStrip(toks))

\* -------------------------------------------------------------- json.loads

RECURSIVE SkipWs(_, _)
SkipWs(toks, i) ==
  IF i <= Len(toks) /\ IsWs(toks[i]) THEN SkipWs(toks, i + 1) ELSE i

ParseFail == [ok |-> FALSE]
ParseOk(v, i) == [ok |-> TRUE, val |-> v, pos |-> i]

At(toks, i, tk) == i <= Len(toks) /\ toks[i] = tk

RECURSIVE ParseValue(_, _), ParseMembers(_, _, _), ParseElements(_, _, _)

\* one JSON value starting at or after position i
ParseValue(toks, i) ==
  LET j == SkipWs(toks, i) IN
  IF j > Len(toks) THEN ParseFail
  ELSE LET tk == toks[j] IN
    CASE tk.k = "str" -> ParseOk(PyStr(tk.v), j + 1)
      [] tk.k = "num" -> ParseOk(PyNum(tk.n), j + 1)
      [] tk.k = "lit" ->
           ( CASE tk.v = "true" -> ParseOk(PyBool(TRUE), j + 1)
               [] tk.v = "false" -> ParseOk(PyBool(FALSE), j + 1)
               [] tk.v = "null" -> ParseOk(PyNone, j + 1)
               [] tk.v = "NaN" -> ParseOk(PyNaN, j + 1)
               [] OTHER -> ParseFail )
      [] tk.k = "punct" ->
           ( CASE tk.v = "{" ->
                    LET j2 == SkipWs(toks, j + 1) IN
                    IF At(toks, j2, P("}")) THEN ParseOk(PyDict(EmptyMap), j2 + 1)
                    ELSE ParseMembers(toks, j2, EmptyMap)
               [] tk.v = "[" ->
                    LET j2 == SkipWs(toks, j + 1) IN
                    IF At(toks, j2, P("]")) THEN ParseOk(PyList(<<>>), j2 + 1)
                    ELSE ParseElements(toks, j2, <<>>)
               [] OTHER -> ParseFail )
      [] OTHER -> ParseFail

\* "key" : value ( , "key" : value )* }   with the pairs so far in m
ParseMembers(toks, i, m) ==
  LET j == SkipWs(toks, i) IN
  IF j > Len(toks) \/ toks[j].k # "str" THEN ParseFail
  ELSE LET c == SkipWs(toks, j + 1) IN
    IF ~At(toks, c, P(":")) THEN ParseFail
    ELSE LET r == ParseValue(toks, c + 1) IN
      IF ~r.ok THEN ParseFail
      ELSE LET m2 == Put(m, toks[j].v, r.val)
               e == SkipWs(toks, r.pos) IN
        IF At(toks, e, P("}")) THEN ParseOk(PyDict(m2), e + 1)
        ELSE IF At(toks, e, P(",")) THEN ParseMembers(toks, e + 1, m2)
        ELSE ParseFail

\* value ( , value )* ]   with the elements so far in q
ParseElements(toks, i, q) ==
  LET r == ParseValue(toks, i) IN
  IF ~r.ok THEN ParseFail
  ELSE LET q2 == Append(q, r.val)
           e == SkipWs(toks, r.pos) IN
    IF At(toks, e, P("]")) THEN ParseOk(PyList(q2), e + 1)
    ELSE IF At(toks, e, P(",")) THEN ParseElements(toks, e + 1, q2)
    ELSE ParseFail

\* json.loads(text): [ok |-> TRUE, val] or [ok |-> FALSE] for JSONDecodeError
JsonLoads(toks) ==
  LET r == ParseValue(toks, 1) IN
  IF r.ok /\ SkipWs(toks, r.pos) > Len(toks)
  THEN [ok |-> TRUE, val |-> r.val]
  ELSE [ok |-> FALSE]

\* `sub in s` for two Python strs. TLC has no substring operation on strings,
\* so the relation is tabulated for the strings the model's inputs contain.
StrContains(s, sub) ==
  \/ s = sub
  \/ <<s, sub>> \in { <<"the answer", "answer">>, <<"answer or tool", "answer">>,
                      <<"answer or tool", "tool">> }

\* ------------------------------------------------------------- exceptions

Raise(ty, detail) == [raised |-> TRUE, exc |-> [type |-> ty, detail |-> detail]]
Return(v) == [raised |-> FALSE, value |-> v]

\* ------------------------------------------------------------ tool catalog

TOOL_FUNCTIONS ==
  { "osm_geocode", "osm_reverse_geocode", "osm_search_poi",
    "osrm_route_driving", "osrm_route_cycling", "osrm_nearest_road" }

Req(name, ty) == [name |-> name, type |-> ty, required |-> TRUE, default |-> PyNone]
Opt(name, ty, d) == [name |-> name, type |-> ty, required |-> FALSE, default |-> d]

RouteParams ==
  << Req("start_lat", "float"), Req("start_lon", "float"),
     Req("end_lat", "float"), Req("end_lon", "float") >>

NearestParams ==
  << Req("lat", "float"), Req("lon", "float"), Opt("profile", "str", PyStr("driving")) >>

\* parameter lists of the OpenStreetMap tools (their module is not in the tree)
OsmParams(tool) ==
  CASE tool = "osm_geocode" ->
         << Req("query", "str"), Opt("limit", "int", PyNum(5)) >>
    [] tool = "osm_reverse_geocode" ->
         << Req("lat", "float"), Req("lon", "float"), Opt("zoom", "int", PyNum(18)) >>
    [] tool = "osm_search_poi" ->
         << Req("lat", "float"), Req("lon", "float"), Opt("radius_m", "int", PyNum(500)),
            Opt("key", "str", PyStr("amenity")), Opt("value", "str", PyStr("restaurant")),
            Opt("limit", "int", PyNum(20)) >>

Signature(tool) ==
  CASE tool \in {"osrm_route_driving", "osrm_route_cycling"} -> RouteParams
    [] tool = "osrm_nearest_road" -> NearestParams
    [] OTHER -> OsmParams(tool)

ParamNames(sig) == {sig[i].name : i \in DOMAIN sig}
RequiredNames(sig) == {sig[i].name : i \in {j \in DOMAIN sig : sig[j].required}}
ParamOf(sig, name) == sig[CHOOSE i \in DOMAIN sig : sig[i].name = name]

\* mutant: a missing argument is bound to None instead of being an error
BindArgs_MissingIsNone(tool, args) ==
  LET sig == Signature(tool) IN
  IF args.t # "dict" THEN Raise("TypeError", "argument after ** must be a mapping")
  ELSE IF DOMAIN args.m \ ParamNames(sig) # {}
    THEN Raise("TypeError", "got an unexpected keyword argument")
  ELSE Return([name \in ParamNames(sig) |->
                 IF name \in DOMAIN args.m THEN args.m[name]
                 ELSE ParamOf(sig, name).default])

\* tool_fn(**args): Python's binding of keyword arguments to the parameters.
\* Types are annotations only: nothing checks a value against them.
BindArgs(tool, args) ==
  LET sig == Signature(tool) IN
  IF args.t # "dict" THEN Raise("TypeError", "argument after ** must be a mapping")
  ELSE IF DOMAIN args.m \ ParamNames(sig) # {}
    THEN Raise("TypeError", "got an unexpected keyword argument")
  ELSE IF RequiredNames(sig) \ DOMAIN args.m # {}
    THEN Raise("TypeError", "missing required positional argument")
  ELSE Return([name \in ParamNames(sig) |->
                 IF name \in DOMAIN args.m THEN args.m[name]
                 ELSE ParamOf(sig, name).default])

\* an argument value of the type its parameter is annotated with
HasType(v, ty) ==
  CASE ty = "float" -> v.t = "num"
    [] ty = "int" -> v.t = "num"
    [] ty = "str" -> v.t = "str"

\* ------------------------------------------------------- OSRM tool bodies

\* _format_coords: OSRM expects "lon,lat;lon,lat"
FormatCoords(start_lat, start_lon, end_lat, end_lon) ==
  <<start_lon, start_lat, end_lon, end_lat>>

RouteProfile(tool) == IF tool = "osrm_route_driving" THEN "driving" ELSE "bike"

\* the request of an OpenStreetMap tool (their module is not in the tree)
OsmRequest(tool, b) ==
  [service |-> "osm", command |-> tool, params |-> b, timeout |-> PyNum(10)]

\* the HTTP request a tool issues once its arguments are bound
ToolRequest(tool, b) ==
  CASE tool \in {"osrm_route_driving", "osrm_route_cycling"} ->
         [ service |-> "osrm", command |-> "/route/v1", profile |-> PyStr(RouteProfile(tool)),
           coords |-> FormatCoords(b["start_lat"], b["start_lon"], b["end_lat"], b["end_lon"]),
           timeout |-> PyNum(10) ]
    [] tool = "osrm_nearest_road" ->
         [ service |-> "osrm", command |-> "/nearest/v1", profile |-> b["profile"],
           coords |-> <<b["lon"], b["lat"]>>, timeout |-> PyNum(10) ]
    [] OTHER -> OsmRequest(tool, b)

\* requests.get(...); resp.raise_for_status(); resp.json()
HttpJson(resp) ==
  CASE resp.status = "conn_error" -> Raise("ConnectionError", "request failed or timed out")
    [] resp.status = "http_error" -> Raise("HTTPError", "raise_for_status")
    [] resp.status = "bad_json" -> Raise("JSONDecodeError", "resp.json()")
    [] OTHER -> Return(resp.json)

\* d.get(key, default) on a dict
DictGet(d, key, default) == IF key \in DOMAIN d.m THEN d.m[key] ELSE default

\* x / c for a float c
Div(x, c) ==
  CASE x.t = "num" -> Return(PyNum(x.n \div c))
    [] x.t = "bool" -> Return(PyNum(0))
    [] OTHER -> Raise("TypeError", "unsupported operand type(s) for /")

\* the body of osrm_route_driving_impl / osrm_route_cycling_impl after the request
RouteFromData(data) ==
  IF data.t # "dict" THEN Raise("AttributeError", "no attribute 'get'")
  ELSE LET routes == DictGet(data, "routes", PyNone) IN
    IF ~Truthy(routes) THEN Raise("RuntimeError", "OSRM returned no routes")
    ELSE IF routes.t # "list" THEN Raise("KeyError", "0")
    ELSE LET route == routes.a[1] IN
      IF route.t # "dict" THEN Raise("TypeError", "route is not subscriptable by str")
      ELSE IF "distance" \notin DOMAIN route.m THEN Raise("KeyError", "distance")
      ELSE LET km == Div(route.m["distance"], 1000) IN
        IF km.raised THEN km
        ELSE IF "duration" \notin DOMAIN route.m THEN Raise("KeyError", "duration")
        ELSE LET min == Div(route.m["duration"], 60) IN
          IF min.raised THEN min
          ELSE Return(PyDict(
                 [ k \in {"distance_km", "duration_min", "summary", "geometry"} |->
                     CASE k = "distance_km" -> km.value
                       [] k = "duration_min" -> min.value
                       [] k = "summary" -> DictGet(route, "summary", PyStr(""))
                       [] k = "geometry" -> DictGet(route, "geometry", PyNone) ]))

\* float(x)
ToFloat(x) ==
  CASE x.t = "num" -> Return(x)
    [] x.t = "bool" -> Return(PyNum(IF x.b THEN 1 ELSE 0))
    [] x.t = "str" -> Raise("ValueError", "could not convert string to float")
    [] OTHER -> Raise("TypeError", "float() argument must be a string or a real number")

\* the body of osrm_nearest_road_impl after the request
NearestFromData(data) ==
  IF data.t # "dict" THEN Raise("AttributeError", "no attribute 'get'")
  ELSE LET wps == DictGet(data, "waypoints", PyNone) IN
    IF ~Truthy(wps) THEN Raise("RuntimeError", "OSRM returned no waypoints")
    ELSE IF wps.t # "list" THEN Raise("KeyError", "0")
    ELSE LET wp == wps.a[1] IN
      IF wp.t # "dict" THEN Raise("TypeError", "waypoint is not subscriptable by str")
      ELSE IF "location" \notin DOMAIN wp.m THEN Raise("KeyError", "location")
      ELSE LET loc == wp.m["location"] IN
        IF loc.t # "list" THEN Raise("TypeError", "cannot unpack non-iterable object")
        ELSE IF Len(loc.a) # 2 THEN Raise("ValueError", "wrong number of values to unpack")
        ELSE LET dist == DictGet(wp, "distance", PyNone)
                 flat == ToFloat(loc.a[2])
                 flon == ToFloat(loc.a[1])
                 fdist == IF dist.t = "none" THEN Return(PyNone) ELSE ToFloat(dist) IN
          IF flat.raised THEN flat
          ELSE IF flon.raised THEN flon
          ELSE IF fdist.raised THEN fdist
          ELSE Return(PyDict(
                 [ k \in {"snapped_lat", "snapped_lon", "distance_m"} |->
                     CASE k = "snapped_lat" -> flat.value
                       [] k = "snapped_lon" -> flon.value
                       [] k = "distance_m" -> fdist.value ]))

\* an OpenStreetMap tool after its request: the payload as received
OsmFromData(data) == Return(data)

\* what a tool call makes of the service's response
ToolFinish(tool, resp) ==
  LET got == HttpJson(resp) IN
  IF got.raised THEN got
  ELSE CASE tool \in {"osrm_route_driving", "osrm_route_cycling"} -> RouteFromData(got.value)
         [] tool = "osrm_nearest_road" -> NearestFromData(got.value)
         [] OTHER -> OsmFromData(got.value)

\* ------------------------------------------------------------ agent logic

\* mutant: the output is never parsed, always wrapped as an answer
AskDecision_NeverParsed(out) == PyDict("answer" :> PyText(Strip(out)))

\* mutant: no fallback when the output is not JSON
AskDecision_NoFallback(out) ==
  LET r == JsonLoads(Strip(out)) IN
  IF r.ok THEN r.val ELSE PyNone

\* ask_llm_for_tool_or_answer, from the model's raw output on
AskDecision(out) ==
  LET text == Strip(out)
      r == JsonLoads(text) IN
  IF r.ok THEN r.val ELSE PyDict("answer" :> PyText(text))

\* `key in d`
In(key, d) ==
  CASE d.t = "dict" -> Return(key \in DOMAIN d.m)
    [] d.t = "list" -> Return(\E i \in DOMAIN d.a : d.a[i] = PyStr(key))
    [] d.t = "str" -> Return(StrContains(d.s, key))
    [] OTHER -> Raise("TypeError", "argument is not iterable")

\* hash(v), needed by `tool_name not in TOOL_FUNCTIONS`
Hashable(v) == v.t \notin {"list", "dict"}

InCatalog(v) == v.t = "str" /\ v.s \in TOOL_FUNCTIONS

\* mutant: the message does not interpolate the tool name
UnknownToolMsg_NoName(tool_name) == [fmt |-> "unknown_tool", tool_name |-> PyStr("")]

\* the strings handle_user_message builds
UnknownToolMsg(tool_name) == [fmt |-> "unknown_tool", tool_name |-> tool_name]
CallErrorMsg(tool_name, args, e) ==
  [fmt |-> "error_calling_tool", tool_name |-> tool_name, args |-> args, e |-> e]
ToolFailedMsg(tool_name, e) == [fmt |-> "tool_failed", tool_name |-> tool_name, e |-> e]
Verbatim(v) == [fmt |-> "verbatim", value |-> v]

DoReturn(a) == [step |-> "return", answer |-> a]
DoRaise(e) == [step |-> "raise", exc |-> e]
DoCall(name, args) == [step |-> "call", tool_name |-> name, args |-> args]
DoExplain(res) == [step |-> "explain", result |-> res]

\* tool_name = decision.get("tool")
ToolNameOf(d) == DictGet(d, "tool", PyNone)

\* mutant: the decision's arguments are dropped
ArgsOf_Dropped(d) == PyDict(EmptyMap)

\* args = decision.get("args", {}) or {}
ArgsOf(d) ==
  LET given == DictGet(d, "args", PyDict(EmptyMap)) IN
  IF Truthy(given) THEN given ELSE PyDict(EmptyMap)

\* handle_user_message from the parsed decision up to the tool call
Dispatch(d) ==
  LET hasAnswer == In("answer", d) IN
  IF hasAnswer.raised THEN DoRaise(hasAnswer.exc)
  ELSE IF hasAnswer.value /\ ~In("tool", d).value
    THEN IF d.t = "dict" THEN DoReturn(Verbatim(d.m["answer"]))
         ELSE DoRaise([type |-> "TypeError", detail |-> "indices must be integers"])
  ELSE IF d.t # "dict"
    THEN DoRaise([type |-> "AttributeError", detail |-> "no attribute 'get'"])
  ELSE LET tool_name == ToolNameOf(d)
           args == ArgsOf(d) IN
    IF ~Hashable(tool_name)
      THEN DoRaise([type |-> "TypeError", detail |-> "unhashable type"])
    ELSE IF ~InCatalog(tool_name) THEN DoReturn(UnknownToolMsg(tool_name))
    ELSE DoCall(tool_name.s, args)

\* mutant: only TypeError is caught, any other exception leaves the handler
ToolOutcome_OnlyTypeErrorCaught(tool_name, args, done) ==
  IF ~done.raised THEN DoExplain(done.value)
  ELSE IF done.exc.type = "TypeError"
    THEN DoReturn(CallErrorMsg(PyStr(tool_name), args, done.exc))
  ELSE DoRaise(done.exc)

\* mutant: a failed tool call is handed to the explanation stage
ToolOutcome_ExplainsFailure(tool_name, args, done) ==
  IF ~done.raised THEN DoExplain(done.value)
  ELSE IF done.exc.type = "TypeError"
    THEN DoReturn(CallErrorMsg(PyStr(tool_name), args, done.exc))
  ELSE DoExplain(PyStr(done.exc.detail))

\* the try statement around tool_fn(**args) and what follows it; done is how
\* the call ended
ToolOutcome(tool_name, args, done) ==
  IF ~done.raised THEN DoExplain(done.value)
  ELSE IF done.exc.type = "TypeError"
    THEN DoReturn(CallErrorMsg(PyStr(tool_name), args, done.exc))
  ELSE DoReturn(ToolFailedMsg(PyStr(tool_name), done.exc))

\* ------------------------------------------------------------------ inputs

Braces(body) == <<P("{")>> \o body \o <<P("}")>>
KV(key, val) == <<S(key), P(":"), WS>> \o val
Comma == <<P(","), WS>>

RouteArgsText ==
  Braces(KV("start_lat", <<N(52)>>) \o Comma \o KV("start_lon", <<N(13)>>) \o Comma
         \o KV("end_lat", <<N(48)>>) \o Comma \o KV("end_lon", <<N(2)>>))

ToolCallText(name, argsText) ==
  Braces(KV("tool", <<S(name)>>) \o Comma \o KV("args", argsText))

\* raw outputs of the decision call
DecisionOutputs ==
  { \* direct answers
    Braces(KV("answer", <<S("Paris is the capital of France")>>)),
    <<WS, NL>> \o Braces(KV("answer", <<S(" spaced ")>>)) \o <<NL>>,
    Braces(KV("answer", <<N(42)>>)),
    \* not JSON
    <<W("Sure"), WS, W("thing")>>,
    <<NL, WS, W("Sure"), WS, W("thing"), WS, NL>>,
    <<WS>>,
    Braces(KV("answer", <<S("cut off")>>)) \o <<WS, W("Hope"), WS, W("this"), WS, W("helps")>>,
    <<P("{"), S("answer"), P(":"), S("unterminated")>>,
    \* tool calls
    ToolCallText("osm_geocode",
      Braces(KV("query", <<S("Eiffel Tower")>>) \o Comma \o KV("limit", <<N(3)>>))),
    ToolCallText("osrm_route_driving", RouteArgsText),
    <<WS>> \o ToolCallText("osrm_route_cycling", RouteArgsText) \o <<NL>>,
    ToolCallText("osrm_nearest_road",
      Braces(KV("lat", <<N(48)>>) \o Comma \o KV("lon", <<N(2)>>))),
    Braces(KV("answer", <<S("both")>>) \o Comma \o KV("tool", <<S("osrm_nearest_road")>>)
           \o Comma \o KV("args", Braces(KV("lat", <<N(48)>>) \o Comma \o KV("lon", <<N(2)>>)))),
    \* arguments that do not fit the tool
    ToolCallText("osrm_route_driving",
      Braces(KV("start_lat", <<N(52)>>) \o Comma \o KV("start_lon", <<N(13)>>)
             \o Comma \o KV("end_lat", <<N(48)>>))),
    ToolCallText("osrm_nearest_road",
      Braces(KV("lat", <<N(48)>>) \o Comma \o KV("lon", <<N(2)>>)
             \o Comma \o KV("radius", <<N(5)>>))),
    ToolCallText("osrm_route_driving",
      Braces(KV("start_lat", <<S("fifty-two")>>) \o Comma \o KV("start_lon", <<N(13)>>)
             \o Comma \o KV("end_lat", <<N(48)>>) \o Comma \o KV("end_lon", <<N(2)>>))),
    Braces(KV("tool", <<S("osrm_route_cycling")>>)),
    ToolCallText("osrm_nearest_road", <<P("["), N(48), P(","), N(2), P("]")>>),
    ToolCallText("osm_geocode", Braces(KV("limit", <<N(3)>>))),
    \* unknown tools
    ToolCallText("osm_teleport", Braces(<<>>)),
    Braces(KV("answer", <<S("both")>>) \o Comma \o KV("tool", <<S("osm_teleport")>>)),
    \* JSON of neither shape
    Braces(<<>>),
    Braces(KV("result", <<S("x")>>)),
    Braces(KV("tool", <<N(5)>>)),
    Braces(KV("tool", <<P("["), S("osm_geocode"), P("]")>>)),
    Braces(KV("tool", Braces(KV("name", <<S("osm_geocode")>>)))),
    <<P("["), N(1), P("]")>>,
    <<P("["), S("answer"), P("]")>>,
    <<S("hello")>>,
    <<S("the answer")>>,
    <<N(42)>>,
    <<L("null")>>,
    <<L("true")>>,
    <<L("NaN")>> }

\* raw outputs of the explanation call
ExplainOutputs ==
  { <<W("The"), WS, W("route"), WS, W("is"), WS, W("12"), WS, W("km")>>,
    <<NL, W("Snapped"), WS, W("to"), WS, W("road"), WS, NL>>,
    Braces(KV("answer", <<S("json again")>>)) }

\* ways a language-model call fails: the client raises, or the completion
\* carries no text and .strip() raises on it
LlmFailures ==
  { [type |-> "HfHubHTTPError", detail |-> "client.chat.completions.create"],
    [type |-> "AttributeError", detail |-> "'NoneType' object has no attribute 'strip'"] }

GoodRoute ==
  PyDict([k \in {"distance", "duration", "summary"} |->
            CASE k = "distance" -> PyNum(12000)
              [] k = "duration" -> PyNum(600)
              [] k = "summary" -> PyStr("A1")])

Ok(json) == [status |-> "ok", json |-> json]
Failed(status) == [status |-> status, json |-> PyNone]

\* what the map service may answer to a request
Responses(tool) ==
  {Failed("conn_error"), Failed("http_error"), Failed("bad_json")} \cup
  ( CASE tool \in {"osrm_route_driving", "osrm_route_cycling"} ->
           { Ok(PyDict("routes" :> PyList(<<GoodRoute>>))),
             Ok(PyDict("routes" :> PyList(<<>>))),
             Ok(PyDict("code" :> PyStr("NoRoute"))),
             Ok(PyDict("routes" :> PyList(<<PyDict("distance" :> PyNone)>>))),
             Ok(PyDict("routes" :> PyList(<<PyDict("duration" :> PyNum(600))>>))),
             Ok(PyList(<<>>)) }
      [] tool = "osrm_nearest_road" ->
           { Ok(PyDict("waypoints" :> PyList(<<
                  PyDict([k \in {"location", "distance"} |->
                            IF k = "location" THEN PyList(<<PyNum(2), PyNum(48)>>)
                            ELSE PyNum(4)])>>))),
             Ok(PyDict("waypoints" :> PyList(<<
                  PyDict("location" :> PyList(<<PyNum(2), PyNum(48)>>))>>))),
             Ok(PyDict("waypoints" :> PyList(<<>>))),
             Ok(PyDict("waypoints" :> PyList(<<PyDict("location" :> PyNone)>>))) }
      [] OTHER ->
           { Ok(PyList(<<PyDict([k \in {"lat", "lon"} |->
                                   IF k = "lat" THEN PyNum(48) ELSE PyNum(2)])>>)),
             Ok(PyList(<<>>)) } )

\* what input() yields: a line, or EOFError / KeyboardInterrupt
InputLines ==
  { <<W("Geocode"), WS, W("the"), WS, W("Eiffel"), WS, W("Tower")>>,
    <<WS, W("hi"), WS>>,
    <<>>,
    <<WS, WS>>,
    <<W("quit")>>,
    <<WS, W("EXIT")>> }

\* str.lower(), for the words the input lines use
Lower(w) ==
  CASE w = "EXIT" -> "exit"
    [] w = "Geocode" -> "geocode"
    [] w = "Eiffel" -> "eiffel"
    [] w = "Tower" -> "tower"
    [] OTHER -> w

LowerText(toks) == [i \in DOMAIN toks |-> [toks[i] EXCEPT !.v = Lower(@)]]

IsQuit(toks) == LowerText(toks) \in {<<W("quit")>>, <<W("exit")>>}

\* ------------------------------------------------------------------- state

Unset == [t |-> "unset"]
NoCall == [tool_name |-> "", args |-> Unset]
NoAnswer == [fmt |-> "none"]
NoExc == [type |-> "", detail |-> "", stage |-> ""]

VARIABLES
  pc,            \* where main is: "input", "decide", "request", "explain",
                 \*   "exited" (main returned), "crashed" (an exception left main)
  turn,          \* number of turns started
  user_message,  \* the stripped input line of the current turn
  raw,           \* the decision call's raw output in the current turn
  decision,      \* the parsed decision of the current turn
  call,          \* the tool call in progress or last made in the current turn
  result,        \* the tool's result in the current turn
  explanation,   \* the explanation call's raw output in the current turn
  answer,        \* what handle_user_message returned in the current turn
  exc,           \* the exception that left handle_user_message
  trace          \* the external calls of the current turn, in order

vars == <<pc, turn, user_message, raw, decision, call, result, explanation, answer,
          exc, trace>>

\* the timeout of the language-model client: InferenceClient(api_key=HF_TOKEN)
\* is built without one, and chat.completions.create is given none
ClientTimeout == PyNone

LlmEvent(stage) == [ev |-> "llm", stage |-> stage, timeout |-> ClientTimeout]
ToolEvent(name, args) == [ev |-> "tool_call", tool_name |-> name, args |-> args]
NetEvent(req) == [ev |-> "net", request |-> req]
EndEvent(status) == [ev |-> "tool_end", status |-> status]

Init ==
  /\ pc = "input"
  /\ turn = 0
  /\ user_message = <<>>
  /\ raw = <<>>
  /\ decision = Unset
  /\ call = NoCall
  /\ result = Unset
  /\ explanation = <<>>
  /\ answer = NoAnswer
  /\ exc = NoExc
  /\ trace = <<>>

\* main: one pass of the while loop up to the call of handle_user_message,
\* which starts with the decision call
ReadInput ==
  /\ pc = "input"
  /\ \E eof \in BOOLEAN, line \in InputLines :
       LET user_input == Strip(line) IN
       IF eof \/ IsQuit(user_input)
         THEN /\ pc' = "exited"
              /\ UNCHANGED <<turn, user_message, raw, decision, call, result,
                             explanation, answer, exc, trace>>
       ELSE IF user_input = <<>>
         THEN UNCHANGED vars
       ELSE /\ turn < MaxTurns
            /\ pc' = "decide"
            /\ turn' = turn + 1
            /\ user_message' = user_input
            /\ raw' = <<>>
            /\ decision' = Unset
            /\ call' = NoCall
            /\ result' = Unset
            /\ explanation' = <<>>
            /\ answer' = NoAnswer
            /\ exc' = NoExc
            /\ trace' = <<LlmEvent("decision")>>

\* an exception leaves handle_user_message; main does not catch it
Propagate(e, stage) ==
  /\ pc' = "crashed"
  /\ exc' = [type |-> e.type, detail |-> e.detail, stage |-> stage]
  /\ UNCHANGED <<answer, result>>

\* handle_user_message returns a; main prints it and loops
ReturnToMain(a) ==
  /\ pc' = "input"
  /\ answer' = a
  /\ UNCHANGED <<exc, result>>

\* the tool returned res: ask_llm_to_explain_result starts its call
StartExplain(res) ==
  /\ pc' = "explain"
  /\ result' = res
  /\ UNCHANGED <<answer, exc>>

\* handle_user_message after the tool call ended as done, with the turn's
\* external calls so far in soFar
AfterTool(tool_name, args, done, soFar) ==
  LET todo == ToolOutcome(tool_name, args, done) IN
  CASE todo.step = "return" -> ReturnToMain(todo.answer) /\ trace' = soFar
    [] todo.step = "raise" -> Propagate(todo.exc, "tool") /\ trace' = soFar
    [] todo.step = "explain" ->
         StartExplain(todo.result) /\ trace' = Append(soFar, LlmEvent("explain"))

\* the decision call returns: parse, dispatch, bind the arguments and run the
\* tool up to its HTTP request
DecisionReturns ==
  /\ pc = "decide"
  /\ \E out \in DecisionOutputs :
       LET d == AskDecision(out)
           todo == Dispatch(d) IN
       /\ raw' = out
       /\ decision' = d
       /\ UNCHANGED <<turn, user_message, explanation>>
       /\ CASE todo.step = "raise" ->
                 /\ Propagate(todo.exc, "dispatch")
                 /\ UNCHANGED <<call, trace>>
            [] todo.step = "return" ->
                 /\ ReturnToMain(todo.answer)
                 /\ UNCHANGED <<call, trace>>
            [] todo.step = "call" ->
                 LET bound == BindArgs(todo.tool_name, todo.args)
                     called == Append(trace, ToolEvent(todo.tool_name, todo.args)) IN
                 /\ call' = [tool_name |-> todo.tool_name, args |-> todo.args]
                 /\ IF bound.raised
                      THEN AfterTool(todo.tool_name, todo.args, bound,
                                     Append(called, EndEvent("not_bound")))
                      ELSE /\ pc' = "request"
                           /\ trace' = Append(called,
                                         NetEvent(ToolRequest(todo.tool_name, bound.value)))
                           /\ UNCHANGED <<answer, exc, result>>

\* the decision call fails
DecisionFails ==
  /\ pc = "decide"
  /\ \E e \in LlmFailures : Propagate(e, "decision")
  /\ UNCHANGED <<turn, user_message, raw, decision, call, explanation, trace>>

\* the map service answers (or fails): the rest of the tool body, the except
\* clauses, and on success the start of the explanation call
ToolResponds ==
  /\ pc = "request"
  /\ \E resp \in Responses(call.tool_name) :
       LET done == ToolFinish(call.tool_name, resp) IN
       AfterTool(call.tool_name, call.args, done,
                 Append(trace, EndEvent(IF done.raised THEN "raised" ELSE "returned")))
  /\ UNCHANGED <<turn, user_message, raw, decision, call, explanation>>

\* ask_llm_to_explain_result once its call returned
ExplainResult(out) == Verbatim(PyText(Strip(out)))

\* the explanation call returns
ExplainReturns ==
  /\ pc = "explain"
  /\ \E out \in ExplainOutputs :
       /\ explanation' = out
       /\ ReturnToMain(ExplainResult(out))
  /\ UNCHANGED <<turn, user_message, raw, decision, call, trace>>

\* the explanation call fails
ExplainFails ==
  /\ pc = "explain"
  /\ \E e \in LlmFailures : Propagate(e, "explain")
  /\ UNCHANGED <<turn, user_message, raw, decision, call, explanation, trace>>

Next ==
  \/ ReadInput
  \/ DecisionReturns
  \/ DecisionFails
  \/ ToolResponds
  \/ ExplainReturns
  \/ ExplainFails

Spec == Init /\ [][Next]_vars

\* a timeout that is a number of seconds (None waits without limit)
Finite(timeout) == timeout.t = "num"

\* the timeout of the external call main is blocked in
PendingTimeout ==
  CASE pc \in {"decide", "explain"} -> trace[Len(trace)].timeout
    [] pc = "request" -> trace[Len(trace)].request.timeout
    [] OTHER -> PyNone

\* the external call in progress ends: its answer arrives, or it fails
CallEnds ==
  \/ DecisionReturns
  \/ DecisionFails
  \/ ToolResponds
  \/ ExplainReturns
  \/ ExplainFails

\* a call under a finite timeout ends, by an answer or by the timeout's
\* exception; nothing makes a call without timeout end
FairSpec == Spec /\ WF_vars(Finite(PendingTimeout) /\ CallEnds)

\* ------------------------------------------------------------ properties

\* the decision call of the current turn has returned
Decided == decision # Unset

\* handle_user_message returned in the current turn (main printed the answer
\* and is reading input again, or has since been told to quit)
Returned == pc \in {"input", "exited"} /\ answer # NoAnswer

HasEvent(kind) == \E i \in DOMAIN trace : trace[i].ev = kind
EventsOf(kind) == SelectSeq(trace, LAMBDA e : e.ev = kind)
ToolEnded(status) == \E i \in DOMAIN trace : trace[i] = EndEvent(status)

\* the raw decision output, read as JSON
RawJson == JsonLoads(raw)
RawIsObject == RawJson.ok /\ RawJson.val.t = "dict"
RawHas(key) == key \in DOMAIN RawJson.val.m
RawAt(key) == RawJson.val.m[key]

\* the raw output is {"tool": T, ...} with T a key of the catalog
RawNamesCatalogTool ==
  /\ RawIsObject /\ RawHas("tool")
  /\ RawAt("tool").t = "str" /\ RawAt("tool").s \in TOOL_FUNCTIONS

\* the parameter specifications of a catalog tool, read off the signatures
MissingRequired(tool, a) ==
  \E i \in DOMAIN Signature(tool) :
     Signature(tool)[i].required /\ Signature(tool)[i].name \notin DOMAIN a.m
ExtraArgument(tool, a) ==
  \E key \in DOMAIN a.m : \A i \in DOMAIN Signature(tool) : Signature(tool)[i].name # key
Binds(tool, a) == a.t = "dict" /\ ~MissingRequired(tool, a) /\ ~ExtraArgument(tool, a)

\* C1: when the decision output is a JSON object with an "answer" key and no
\* "tool" key, handle_user_message returns the value of "answer" itself, and
\* nothing else is called in the turn.
C1_DirectAnswerVerbatim ==
  (Decided /\ RawIsObject /\ RawHas("answer") /\ ~RawHas("tool"))
    => /\ Returned
       /\ answer = Verbatim(RawAt("answer"))
       /\ trace = <<LlmEvent("decision")>>

C1_Witness ==
  /\ Decided /\ RawIsObject /\ RawHas("answer") /\ ~RawHas("tool")
  /\ raw # Strip(raw)
  /\ answer = Verbatim(PyStr(" spaced "))

\* C2: when the decision output is {"tool": T, "args": A} with T in the catalog
\* and A binding to T's parameters, the turn calls T exactly once, with A, and
\* issues one request built from A; when the tool returned and the turn
\* returned, the answer is the explanation call's text and not the tool result.
C2_ToolOnceThenExplained ==
  (Decided /\ RawNamesCatalogTool /\ RawHas("args")
           /\ Binds(RawAt("tool").s, RawAt("args")))
    => /\ EventsOf("tool_call") = <<ToolEvent(RawAt("tool").s, RawAt("args"))>>
       /\ Len(EventsOf("net")) = 1
       /\ LET request == EventsOf("net")[1].request IN
          request.service = "osrm"
            => \A key \in DOMAIN RawAt("args").m :
                  \/ request.profile = RawAt("args").m[key]
                  \/ \E i \in DOMAIN request.coords :
                        request.coords[i] = RawAt("args").m[key]
       /\ (ToolEnded("returned") /\ Returned)
            => /\ answer = Verbatim(PyText(Strip(explanation)))
               /\ answer # Verbatim(result)
               /\ trace[Len(trace)] = LlmEvent("explain")

C2_Witness ==
  /\ Decided /\ RawNamesCatalogTool /\ RawHas("args")
  /\ Binds(RawAt("tool").s, RawAt("args"))
  /\ ToolEnded("returned") /\ Returned
  /\ call.tool_name = "osrm_route_driving"
  /\ explanation # Strip(explanation)
  /\ answer.fmt = "verbatim"

\* C3: when the decision names a tool that is not a key of the catalog, the
\* turn returns the unknown-tool message carrying that name, and calls neither
\* a tool nor the explanation stage.
C3_UnknownToolHandled ==
  (Decided /\ RawIsObject /\ RawHas("tool")
           /\ RawAt("tool").t = "str" /\ RawAt("tool").s \notin TOOL_FUNCTIONS)
    => /\ Returned
       /\ answer.fmt = "unknown_tool"
       /\ answer.tool_name = RawAt("tool")
       /\ trace = <<LlmEvent("decision")>>

C3_Witness ==
  /\ Decided /\ RawIsObject /\ RawHas("tool")
  /\ RawAt("tool") = PyStr("osm_teleport")
  /\ RawHas("answer")
  /\ answer.fmt = "unknown_tool"

\* the argument mapping the raw output gives ({} when it gives none)
RawArgs == IF RawHas("args") THEN RawAt("args") ELSE PyDict(EmptyMap)

\* C4: when the argument mapping lacks a required parameter of the catalog tool
\* the decision names, the turn returns the error-calling-tool message with
\* the tool name and those arguments, and no request goes to the map service.
C4_MissingArgNoRequest ==
  (Decided /\ RawNamesCatalogTool /\ RawArgs.t = "dict"
           /\ MissingRequired(RawAt("tool").s, RawArgs))
    => /\ Returned
       /\ answer.fmt = "error_calling_tool"
       /\ answer.tool_name = RawAt("tool")
       /\ answer.args = RawArgs
       /\ ~HasEvent("net")
       /\ ~HasEvent("llm") \/ EventsOf("llm") = <<LlmEvent("decision")>>

C4_Witness ==
  /\ Decided /\ RawNamesCatalogTool /\ RawHas("args") /\ RawArgs.t = "dict"
  /\ RawAt("tool").s = "osrm_route_driving"
  /\ MissingRequired("osrm_route_driving", RawArgs)
  /\ "start_lat" \in DOMAIN RawArgs.m
  /\ answer.fmt = "error_calling_tool"

NeitherShape(v) ==
  \/ v.t # "dict"
  \/ /\ v.t = "dict"
     /\ \/ "answer" \notin DOMAIN v.m /\ "tool" \notin DOMAIN v.m
        \/ "tool" \in DOMAIN v.m /\ v.m["tool"].t # "str"
        \/ "tool" \in DOMAIN v.m /\ "args" \in DOMAIN v.m /\ v.m["args"].t # "dict"

\* C6 as stated: when the decision output is JSON of neither shape, the turn
\* does not raise: handle_user_message returns.
C6_OddJsonNeverRaises ==
  (RawJson.ok /\ NeitherShape(RawJson.val)) => Returned

\* the tool call of the current turn failed: its arguments did not bind, or
\* its body raised
ToolFailed == ToolEnded("not_bound") \/ ToolEnded("raised")

\* C7: when the call of a catalog tool fails, no exception leaves
\* handle_user_message: it returns one of the two error messages, carrying the
\* tool's name, and the explanation call is not made.
C7_ToolFailureHandled ==
  ToolFailed
    => /\ Returned
       /\ exc = NoExc
       /\ answer.fmt \in {"error_calling_tool", "tool_failed"}
       /\ answer.tool_name = PyStr(call.tool_name)
       /\ call.tool_name \in TOOL_FUNCTIONS
       /\ EventsOf("llm") = <<LlmEvent("decision")>>

C7_Witness ==
  /\ ToolEnded("raised")
  /\ Returned
  /\ answer.fmt = "tool_failed"
  /\ answer.e.type = "HTTPError"
  /\ answer.tool_name = PyStr("osrm_route_cycling")

\* the arguments bind and each has the type its parameter is declared with
ArgsFit(tool, a) ==
  /\ Binds(tool, a)
  /\ \A i \in DOMAIN Signature(tool) :
        Signature(tool)[i].name \in DOMAIN a.m
          => HasType(a.m[Signature(tool)[i].name], Signature(tool)[i].type)

\* C8 as stated: a failed call is reported as invalid arguments exactly when
\* the arguments are extra, missing or mistyped, and then the tool body has not
\* run (no request); it is reported as a tool failure exactly when the tool ran
\* with fitting arguments and failed.
C8_ErrorKindMatchesCause ==
  (ToolFailed /\ Returned)
    => /\ answer.fmt = "error_calling_tool" <=> ~ArgsFit(call.tool_name, call.args)
       /\ ~ArgsFit(call.tool_name, call.args) => ~HasEvent("net")
       /\ answer.fmt = "tool_failed"
            <=> (ArgsFit(call.tool_name, call.args) /\ ToolEnded("raised"))

\* C9 as stated: a failed language-model call ends its turn only; main stays
\* alive.
C9_LoopSurvivesModelFailure ==
  exc.stage \in {"decision", "explain"} => pc # "crashed"

\* position of an external call in the order decision, tool, explanation
Rank(e) ==
  CASE e.ev = "llm" -> IF e.stage = "decision" THEN 1 ELSE 5
    [] e.ev = "tool_call" -> 2
    [] e.ev = "net" -> 3
    [] e.ev = "tool_end" -> 4

\* C10: in a turn there are at most two language-model calls, at most one
\* tool call and one request, in the order decision, tool, explanation; the
\* explanation call directly follows a tool call that returned; a tool call
\* follows a decision naming that catalog tool; a direct answer comes with the
\* decision call alone.
C10_CallsBoundedAndOrdered ==
  /\ Len(EventsOf("llm")) <= 2
  /\ Len(EventsOf("tool_call")) <= 1
  /\ Len(EventsOf("net")) <= 1
  /\ \A i, j \in DOMAIN trace : i < j => Rank(trace[i]) < Rank(trace[j])
  /\ turn > 0 => trace[1] = LlmEvent("decision")
  /\ \A i \in DOMAIN trace :
        trace[i] = LlmEvent("explain")
          => /\ i > 1 /\ trace[i - 1] = EndEvent("returned")
             /\ HasEvent("tool_call") /\ HasEvent("net")
  /\ \A i \in DOMAIN trace :
        trace[i].ev = "tool_call"
          => /\ Decided /\ decision.t = "dict" /\ "tool" \in DOMAIN decision.m
             /\ decision.m["tool"] = PyStr(trace[i].tool_name)
             /\ trace[i].tool_name \in TOOL_FUNCTIONS
  /\ (Decided /\ decision.t = "dict" /\ "answer" \in DOMAIN decision.m
              /\ "tool" \notin DOMAIN decision.m)
       => Returned /\ trace = <<LlmEvent("decision")>>

C10_Witness ==
  /\ Returned
  /\ Len(trace) = 5
  /\ trace[5] = LlmEvent("explain")
  /\ trace[2].tool_name = "osrm_nearest_road"
  /\ turn = 2

\* main is blocked in an external call of the current turn
InCall == pc \in {"decide", "request", "explain"}

\* C11 as stated, its premise: every network call of a turn (decision call,
\* map-service request, explanation call) is made under a finite timeout.
C11_EveryCallHasFiniteTimeout ==
  \A i \in DOMAIN trace :
     /\ trace[i].ev = "llm" => Finite(trace[i].timeout)
     /\ trace[i].ev = "net" => Finite(trace[i].request.timeout)

\* C11 as stated, its conclusion: a turn blocked in an external call
\* eventually leaves it for a terminal outcome. Under FairSpec this fails at
\* the decision call, which no timeout ends.
C11_EveryTurnEnds == InCall ~> ~InCall

\* the part of C11 the code keeps: a map-service request, made with
\* timeout=10, always ends, and a request that fails or times out is answered
\* by the tool-failed message.
C11_RequestAlwaysEnds == (pc = "request") ~> (pc # "request")

====
